---- MODULE Spec2Model ----
(***************************************************************************)
(* A model of reddit-rs: the fetch client (src/src/client.rs), its error   *)
(* kinds (src/src/error.rs) and the serde envelope decoder                 *)
(* (src/src/types.rs).                                                     *)
(*                                                                         *)
(* Spec        one call of Client::get_subreddit or Client::get_post, from *)
(*             the request to the returned Result, step by step.           *)
(* DecodeSpec  serde_json::from_str::<Thing> and ::<Vec<Thing>> applied to *)
(*             every document of a bounded set.                            *)
(***************************************************************************)
EXTENDS Naturals, Sequences, FiniteSets

VARIABLES
    op,            \* the operation called: "none", "get_subreddit", "get_post"
    pc,            \* position in the operation's body
    url,           \* the URL of the request in flight (res.url() once answered)
    hops,          \* redirects the transport has followed for this call
    requests,      \* HTTP requests issued for this call
    first,         \* status and Location of the first answer received
    res,           \* the response send() returned: status and final URL
    received,      \* how much of the body has arrived: "none", "partial", "complete"
    text,          \* the body once read (Option)
    decodeStarted, \* serde_json has been run on the body
    result,        \* the Result the call returned
    input,         \* DecodeSpec: the document given to serde_json::from_str
    output         \* DecodeSpec: what from_str returned

clientVars == <<op, pc, url, hops, requests, first, res, received, text, decodeStarted, result>>
decodeVars == <<input, output>>
vars == <<op, pc, url, hops, requests, first, res, received, text, decodeStarted,
          result, input, output>>

----------------------------------------------------------------------------
(* Bounds                                                                  *)

\* Redirects the transport follows before it gives up (reqwest's default
\* policy allows 10; the client builder at client.rs:49-54 sets none).
MaxRedirects == 2
\* Envelopes in a response body of the client specification.
MaxBodyNodes == 1
\* Envelopes in a document of the decoder specification.
MaxNodes == 3

----------------------------------------------------------------------------
(* Option<T>: None is the empty sequence, Some(x) a one-element sequence.  *)

None == <<>>
Some(x) == <<x>>

----------------------------------------------------------------------------
(* URLs, as sequences of segments; starts_with is the prefix test.         *)

Host == "https://www.reddit.com"

\* client.rs:65
SEARCH_URL == <<Host, "subreddits", "search.json?">>

\* Compares the whole URL instead of its beginning.
starts_with_whole(s, prefix) == s = prefix

starts_with(s, prefix) ==
    /\ Len(prefix) <= Len(s)
    /\ \A i \in 1..Len(prefix) : s[i] = prefix[i]

Subreddits == {"aww", "gfdghfj"}
PostIds == {"h966lq"}

\* client.rs:61
SubredditUrl(subreddit) == <<Host, "r", subreddit, ".json?limit=25">>
\* client.rs:79
PostUrl(subreddit, post_id) == <<Host, "r", subreddit, "comments", post_id, ".json">>

\* Where the server may redirect to: the search page (with a query), a
\* proper prefix of the search URL, and an unrelated page.
RedirectTargets ==
    { SEARCH_URL \o <<"q=gfdghfj">>,
      <<Host, "subreddits">>,
      <<Host, "r", "aww", "hot", ".json">> }

----------------------------------------------------------------------------
(* HTTP statuses                                                           *)

Statuses == {200, 204, 302, 404, 500}

\* Takes every status but 200 for an error.
is_client_or_server_error_not_200(status) == status # 200

\* Response::error_for_status fails on 400..599 only.
is_client_or_server_error(status) == status >= 400 /\ status <= 599

----------------------------------------------------------------------------
(* JSON documents.  An envelope is an object with optional string members  *)
(* "id" and "name", a "kind" string and a "data" member; data.wf says      *)
(* whether the payload has every required field of its kind with the right *)
(* type, and data.children holds the envelopes of a Listing's "children".  *)

IdNames ==
    { [id |-> None, name |-> None],
      [id |-> Some("8xwlg"), name |-> Some("t3_8xwlg")] }

Envelope(idn, kind, wf, children) ==
    [id |-> idn.id, name |-> idn.name, kind |-> kind,
     data |-> [wf |-> wf, children |-> children]]

\* <<kind, payload well-formed>>; "t2" (account) is a kind reddit sends
\* that ThingData does not list (types.rs:38-40).
LeafShapes ==
    { <<"more", TRUE>>, <<"t1", TRUE>>, <<"t3", TRUE>>, <<"t3", FALSE>>,
      <<"t2", TRUE>> }

Leaves == { Envelope(i, s[1], s[2], <<>>) : i \in IdNames, s \in LeafShapes }

RECURSIVE Trees(_), Forests(_)
\* The envelopes of at most n nodes, and the sequences of envelopes of at
\* most n nodes in all.
Trees(n) ==
    IF n = 0 THEN {}
    ELSE Leaves
         \cup { Envelope(i, "Listing", FALSE, <<>>) : i \in IdNames }
         \cup { Envelope(i, "Listing", TRUE, f) : i \in IdNames, f \in Forests(n - 1) }
Forests(n) ==
    {<<>>} \cup
    UNION { { <<t>> \o f : t \in Trees(k), f \in Forests(n - k) } : k \in 1..n }

\* A body text: not JSON at all, one envelope object, or a top-level array.
Garbage == [t |-> "garbage", v |-> <<>>]
Object(e) == [t |-> "object", v |-> <<e>>]
Array(f) == [t |-> "array", v |-> f]

Texts(n) ==
    {Garbage} \cup { Object(e) : e \in Trees(n) } \cup { Array(f) : f \in Forests(n) }

Bodies == Texts(MaxBodyNodes)
Documents == Texts(MaxNodes)

----------------------------------------------------------------------------
(* The decoder: serde's derived Deserialize for Thing and ThingData.       *)

DecodeOk(v) == [ok |-> TRUE, v |-> v, error |-> ""]
DecodeErr(msg) == [ok |-> FALSE, v |-> <<>>, error |-> msg]

\* The serde(rename) of each ThingData variant, types.rs:28-42.
KnownKinds == {"Listing", "more", "t1", "t3"}
VariantOf(kind) ==
    CASE kind = "Listing" -> "Listing"
      [] kind = "more" -> "More"
      [] kind = "t1" -> "Comment"
      [] kind = "t3" -> "Link"

RECURSIVE deserialize_Thing(_), deserialize_Vec(_)

\* Gives id and name to Comment and Link only.
deserialize_Thing_by_kind(e) ==
    IF e.kind \notin KnownKinds THEN DecodeErr("unknown variant")
    ELSE IF ~e.data.wf THEN DecodeErr("missing field")
    ELSE LET kids == IF e.kind = "Listing" THEN deserialize_Vec(e.data.children)
                     ELSE DecodeOk(<<>>)
             anon == e.kind \in {"Listing", "more"}
         IN  IF ~kids.ok THEN kids
             ELSE DecodeOk(<< [id |-> IF anon THEN None ELSE e.id,
                               name |-> IF anon THEN None ELSE e.name,
                               data |-> [variant |-> VariantOf(e.kind),
                                         children |-> kids.v]] >>)

\* Thing: id and name are Options read from the envelope; data is the
\* flattened, adjacently tagged ThingData.
deserialize_Thing(e) ==
    IF e.kind \notin KnownKinds THEN DecodeErr("unknown variant")
    ELSE IF ~e.data.wf THEN DecodeErr("missing field")
    ELSE LET kids == IF e.kind = "Listing" THEN deserialize_Vec(e.data.children)
                     ELSE DecodeOk(<<>>)
         IN  IF ~kids.ok THEN kids
             ELSE DecodeOk(<< [id |-> e.id, name |-> e.name,
                               data |-> [variant |-> VariantOf(e.kind),
                                         children |-> kids.v]] >>)

RECURSIVE deserialize_Vec_skipping(_)
\* Skips the elements that do not decode and goes on.
deserialize_Vec_skipping(f) ==
    IF f = <<>> THEN DecodeOk(<<>>)
    ELSE LET h == deserialize_Thing(Head(f))
             rest == deserialize_Vec_skipping(Tail(f))
         IN  IF ~h.ok THEN rest ELSE DecodeOk(h.v \o rest.v)

\* Collects the elements last to first.
deserialize_Vec_reversed(f) ==
    IF f = <<>> THEN DecodeOk(<<>>)
    ELSE LET h == deserialize_Thing(Head(f))
         IN  IF ~h.ok THEN h
             ELSE LET rest == deserialize_Vec(Tail(f))
                  IN  IF ~rest.ok THEN rest ELSE DecodeOk(rest.v \o h.v)

\* Vec<Thing>: the elements in order; the first failure fails the whole.
deserialize_Vec(f) ==
    IF f = <<>> THEN DecodeOk(<<>>)
    ELSE LET h == deserialize_Thing(Head(f))
         IN  IF ~h.ok THEN h
             ELSE LET rest == deserialize_Vec(Tail(f))
                  IN  IF ~rest.ok THEN rest ELSE DecodeOk(h.v \o rest.v)

\* serde_json::from_str::<Thing>
from_str_Thing(body) ==
    IF body.t = "garbage" THEN DecodeErr("syntax")
    ELSE IF body.t # "object" THEN DecodeErr("invalid type")
    ELSE deserialize_Thing(body.v[1])

\* serde_json::from_str::<Vec<Thing>>
from_str_Vec(body) ==
    IF body.t = "garbage" THEN DecodeErr("syntax")
    ELSE IF body.t # "array" THEN DecodeErr("invalid type")
    ELSE deserialize_Vec(body.v)

----------------------------------------------------------------------------
(* Errors and results                                                      *)

\* A reqwest::Error converted by `?`; cause is what reqwest reports it as
\* (is_connect/is_redirect/is_status/is_body/is_decode), status its status().
Error_Reqwest(cause, status) ==
    [kind |-> "Reqwest", cause |-> cause, status |-> status, data |-> None, error |-> ""]
Error_SubredditNotFound ==
    [kind |-> "SubredditNotFound", cause |-> "", status |-> 0, data |-> None, error |-> ""]
Error_Json(data, error) ==
    [kind |-> "Json", cause |-> "", status |-> 0, data |-> Some(data), error |-> error]

is_subreddit_not_found(e) == e.kind = "SubredditNotFound"

Pending == [tag |-> "Pending", v |-> <<>>, e |-> None]
Ok(v) == [tag |-> "Ok", v |-> v, e |-> None]
Err(e) == [tag |-> "Err", v |-> <<>>, e |-> Some(e)]

NoResponse == [status |-> 0, url |-> <<>>]
NoAnswer == [status |-> 0, location |-> None]
NotRun == [as |-> "none", r |-> DecodeErr("")]

----------------------------------------------------------------------------
(* The fetch client                                                        *)

Init ==
    /\ op = "none"
    /\ pc = "idle"
    /\ url = <<>>
    /\ hops = 0
    /\ requests = 0
    /\ first = NoAnswer
    /\ res = NoResponse
    /\ received = "none"
    /\ text = None
    /\ decodeStarted = FALSE
    /\ result = Pending
    /\ input = Garbage
    /\ output = NotRun

\* client.rs:60-62: build the URL and issue the request.
get_subreddit ==
    /\ pc = "idle"
    /\ \E subreddit \in Subreddits : url' = SubredditUrl(subreddit)
    /\ op' = "get_subreddit"
    /\ requests' = 1
    /\ pc' = "send"
    /\ UNCHANGED <<hops, first, res, text, decodeStarted, result, received, input, output>>

\* client.rs:78-83
get_post ==
    /\ pc = "idle"
    /\ \E subreddit \in Subreddits, post_id \in PostIds : url' = PostUrl(subreddit, post_id)
    /\ op' = "get_post"
    /\ requests' = 1
    /\ pc' = "send"
    /\ UNCHANGED <<hops, first, res, text, decodeStarted, result, received, input, output>>

\* The answers the server may give to one request.
Answers ==
    { [status |-> s, location |-> l] :
        s \in Statuses, l \in {None} \cup { Some(t) : t \in RedirectTargets } }

\* A policy that follows nothing.
redirect_followed_never(a) == FALSE

\* The default redirect policy of the reqwest client built at
\* client.rs:49-54: a redirect status with a Location is followed.
redirect_followed(a) ==
    a.status \in {301, 302, 303, 307, 308} /\ a.location # None

FirstAfter(a) == IF first = NoAnswer THEN a ELSE first

\* Sends the request again when it fails.
send_fails_retries ==
    /\ pc = "send"
    /\ requests <= MaxRedirects + 1
    /\ requests' = requests + 1
    /\ UNCHANGED <<op, pc, url, hops, first, res, text, decodeStarted, result, received, input, output>>

\* send().await? fails: no response at all.
send_fails ==
    /\ pc = "send"
    /\ result' = Err(Error_Reqwest("connect", 0))
    /\ pc' = "done"
    /\ UNCHANGED <<op, url, hops, requests, first, res, text, decodeStarted, received, input, output>>

\* send() gets a redirect and requests its target.
send_follows_redirect ==
    /\ pc = "send"
    /\ hops < MaxRedirects
    /\ \E a \in Answers :
         /\ redirect_followed(a)
         /\ first' = FirstAfter(a)
         /\ url' = a.location[1]
    /\ hops' = hops + 1
    /\ requests' = requests + 1
    /\ UNCHANGED <<op, pc, res, text, decodeStarted, result, received, input, output>>

\* send() gets one redirect more than the policy allows.
send_too_many_redirects ==
    /\ pc = "send"
    /\ hops >= MaxRedirects
    /\ \E a \in Answers :
         /\ redirect_followed(a)
         /\ first' = FirstAfter(a)
    /\ result' = Err(Error_Reqwest("redirect", 0))
    /\ pc' = "done"
    /\ UNCHANGED <<op, url, hops, requests, res, text, decodeStarted, received, input, output>>

\* send().await returns a response: its status, and the URL it came from.
send_returns ==
    /\ pc = "send"
    /\ \E a \in Answers :
         /\ ~redirect_followed(a)
         /\ first' = FirstAfter(a)
         /\ res' = [status |-> a.status, url |-> url]
    /\ pc' = "error_for_status"
    /\ UNCHANGED <<op, url, hops, requests, text, decodeStarted, result, received, input, output>>

\* Checks the status of a listing only.
error_for_status_listing_only ==
    /\ pc = "error_for_status"
    /\ IF op = "get_subreddit" /\ is_client_or_server_error(res.status)
       THEN /\ result' = Err(Error_Reqwest("status", res.status))
            /\ pc' = "done"
       ELSE /\ pc' = IF op = "get_subreddit" THEN "search_url" ELSE "body"
            /\ UNCHANGED result
    /\ UNCHANGED <<op, url, hops, requests, first, res, text, decodeStarted, received, input, output>>

\* Reports the status of the first answer, not of the response returned.
error_for_status_of_first ==
    /\ pc = "error_for_status"
    /\ IF is_client_or_server_error(res.status)
       THEN /\ result' = Err(Error_Reqwest("status", first.status))
            /\ pc' = "done"
       ELSE /\ pc' = IF op = "get_subreddit" THEN "search_url" ELSE "body"
            /\ UNCHANGED result
    /\ UNCHANGED <<op, url, hops, requests, first, res, text, decodeStarted, received, input, output>>

\* Looks at the search URL before the status.
error_for_status_after_search ==
    /\ pc = "error_for_status"
    /\ IF op = "get_subreddit" /\ starts_with(res.url, SEARCH_URL)
       THEN /\ result' = Err(Error_SubredditNotFound)
            /\ pc' = "done"
       ELSE IF is_client_or_server_error(res.status)
       THEN /\ result' = Err(Error_Reqwest("status", res.status))
            /\ pc' = "done"
       ELSE /\ pc' = "body"
            /\ UNCHANGED result
    /\ UNCHANGED <<op, url, hops, requests, first, res, text, decodeStarted, received, input, output>>

\* client.rs:62 and client.rs:85: .error_for_status()?
error_for_status ==
    /\ pc = "error_for_status"
    /\ IF is_client_or_server_error(res.status)
       THEN /\ result' = Err(Error_Reqwest("status", res.status))
            /\ pc' = "done"
       ELSE /\ pc' = IF op = "get_subreddit" THEN "search_url" ELSE "body"
            /\ UNCHANGED result
    /\ UNCHANGED <<op, url, hops, requests, first, res, text, decodeStarted, received, input, output>>

\* Reads the body before it looks at the URL.
check_search_url_after_text ==
    /\ pc = "search_url"
    /\ \E b \in Bodies : text' = Some(b)
    /\ received' = "complete"
    /\ IF starts_with(res.url, SEARCH_URL)
       THEN /\ result' = Err(Error_SubredditNotFound)
            /\ pc' = "done"
       ELSE /\ pc' = "decode"
            /\ UNCHANGED result
    /\ UNCHANGED <<op, url, hops, requests, first, res, decodeStarted, input, output>>

\* client.rs:64-68
check_search_url ==
    /\ pc = "search_url"
    /\ IF starts_with(res.url, SEARCH_URL)
       THEN /\ result' = Err(Error_SubredditNotFound)
            /\ pc' = "done"
       ELSE /\ pc' = "body"
            /\ UNCHANGED result
    /\ UNCHANGED <<op, url, hops, requests, first, res, text, decodeStarted, received, input, output>>

\* client.rs:70 res.text().await and the body read inside .json().await
read_body ==
    /\ pc = "body"
    /\ \E b \in Bodies : text' = Some(b)
    /\ received' = "complete"
    /\ pc' = "decode"
    /\ UNCHANGED <<op, url, hops, requests, first, res, decodeStarted, result, input, output>>

\* Part of the body has arrived; the read is still awaiting the rest.
body_streams ==
    /\ pc = "body"
    /\ received = "none"
    /\ received' = "partial"
    /\ UNCHANGED <<op, pc, url, hops, requests, first, res, text, decodeStarted, result, input, output>>

\* The caller drops the future while it awaits the response or the body.
future_dropped ==
    /\ pc \in {"send", "body"}
    /\ pc' = "dropped"
    /\ UNCHANGED <<op, url, hops, requests, first, res, text, decodeStarted, result, received, input, output>>

\* Hands the decoder what had arrived when the stream failed.
read_body_fails_decodes_rest ==
    /\ pc = "body"
    /\ received = "partial"
    /\ text' = Some(Garbage)
    /\ pc' = "decode"
    /\ UNCHANGED <<op, url, hops, requests, first, res, decodeStarted, result, received, input, output>>

\* The body stream fails: `?` returns the reqwest error.
read_body_fails ==
    /\ pc = "body"
    /\ result' = Err(Error_Reqwest("body", 0))
    /\ pc' = "done"
    /\ UNCHANGED <<op, url, hops, requests, first, res, text, decodeStarted, received, input, output>>

\* client.rs:71-74
get_subreddit_decode(body) ==
    LET r == from_str_Thing(body)
    IN  IF r.ok THEN Ok(r.v) ELSE Err(Error_Json(body, r.error))

\* client.rs:86-87: reqwest's json() reports a failed parse as its own
\* decode error, which `?` converts.
get_post_decode(body) ==
    LET r == from_str_Vec(body)
    IN  IF r.ok THEN Ok(r.v) ELSE Err(Error_Reqwest("decode", 0))

decode ==
    /\ pc = "decode"
    /\ decodeStarted' = TRUE
    /\ result' = IF op = "get_subreddit" THEN get_subreddit_decode(text[1])
                 ELSE get_post_decode(text[1])
    /\ pc' = "done"
    /\ UNCHANGED <<op, url, hops, requests, first, res, text, received, input, output>>

Next ==
    \/ get_subreddit
    \/ get_post
    \/ send_fails
    \/ send_follows_redirect
    \/ send_too_many_redirects
    \/ send_returns
    \/ error_for_status
    \/ check_search_url
    \/ read_body
    \/ body_streams
    \/ read_body_fails
    \/ future_dropped
    \/ decode

Spec == Init /\ [][Next]_vars

----------------------------------------------------------------------------
(* The decoder applied to every document of the bounded set.               *)

DecodeInit ==
    /\ op = "none"
    /\ pc = "idle"
    /\ url = <<>>
    /\ hops = 0
    /\ requests = 0
    /\ first = NoAnswer
    /\ res = NoResponse
    /\ received = "none"
    /\ text = None
    /\ decodeStarted = FALSE
    /\ result = Pending
    /\ input \in Documents
    /\ output = NotRun

from_str_as_Thing ==
    /\ output = NotRun
    /\ output' = [as |-> "Thing", r |-> from_str_Thing(input)]
    /\ UNCHANGED <<clientVars, input>>

from_str_as_Vec ==
    /\ output = NotRun
    /\ output' = [as |-> "Vec", r |-> from_str_Vec(input)]
    /\ UNCHANGED <<clientVars, input>>

DecodeNext == from_str_as_Thing \/ from_str_as_Vec

DecodeSpec == DecodeInit /\ [][DecodeNext]_vars

----------------------------------------------------------------------------
(* What the claims speak of                                                *)

Done == pc = "done"
is_success(status) == status >= 200 /\ status <= 299
is_redirection(status) == status >= 300 /\ status <= 399
\* u begins with "https://www.reddit.com/subreddits/search.json?"
BeginsWithSearchPrefix(u) ==
    Len(u) >= 3 /\ SubSeq(u, 1, 3) = <<Host, "subreddits", "search.json?">>
Failed == result.tag = "Err"
TheError == result.e[1]
Answered == res # NoResponse

StatusError == Failed /\ TheError.kind = "Reqwest" /\ TheError.cause = "status"
NotFound == Failed /\ TheError.kind = "SubredditNotFound"
DecodeError ==
    /\ Failed
    /\ \/ TheError.kind = "Json"
       \/ TheError.kind = "Reqwest" /\ TheError.cause = "decode"
BodyError == Failed /\ TheError.kind = "Reqwest" /\ TheError.cause = "body"

\* The first answer to the call's request was a redirect with a Location.
FirstIsRedirect == is_redirection(first.status) /\ first.location # None
FirstIsRedirectToSearch ==
    FirstIsRedirect /\ BeginsWithSearchPrefix(first.location[1])
FirstIs302Elsewhere ==
    /\ first.status = 302
    /\ first.location # None
    /\ ~BeginsWithSearchPrefix(first.location[1])

\* C1 as stated: a get_subreddit whose request is answered by a redirect to a
\* target beginning with the search prefix returns SubredditNotFound (read
\* for the calls in which the transport returns a response at all).
C1_AsStated ==
    (Done /\ op = "get_subreddit" /\ FirstIsRedirectToSearch /\ Answered) => NotFound

\* C1 amended: a get_subreddit whose request is answered by a redirect to a
\* target beginning with the search prefix returns SubredditNotFound when the
\* response the transport finally returns comes from a URL beginning with the
\* prefix and has no 4xx/5xx status; is_subreddit_not_found is true of that
\* error and false of every error of another kind.
C1_NotFoundAfterSearchRedirect ==
    /\ ( /\ Done
         /\ op = "get_subreddit"
         /\ FirstIsRedirectToSearch
         /\ Answered
         /\ BeginsWithSearchPrefix(res.url)
         /\ ~(res.status >= 400 /\ res.status <= 599) )
       => (NotFound /\ is_subreddit_not_found(TheError))
    /\ Failed =>
         (is_subreddit_not_found(TheError) <=> TheError.kind \notin {"Reqwest", "Json"})

C1_Witness ==
    Done /\ op = "get_subreddit" /\ FirstIsRedirectToSearch /\ NotFound /\ hops = 1

\* C2 as stated: a fetch answered by a 302 whose Location does not begin with
\* the search prefix returns the HTTP status error carrying 302, whatever the
\* redirect target would serve (read for the calls in which the transport
\* returns a response at all).
C2_AsStated ==
    (Done /\ FirstIs302Elsewhere /\ Answered) =>
        result = Err(Error_Reqwest("status", 302))

\* C2 amended: a fetch answered by a 302 whose Location does not begin with
\* the search prefix follows the redirect with a second request, and its
\* outcome is that of the response finally returned: a status error carries
\* that response's 4xx/5xx status, never 302, and SubredditNotFound is
\* returned only by get_subreddit after a further redirect to a URL
\* beginning with the prefix.
C2_RedirectElsewhereIsFollowed ==
    (Done /\ FirstIs302Elsewhere) =>
        /\ requests >= 2
        /\ StatusError =>
             /\ TheError.status = res.status
             /\ TheError.status >= 400
             /\ TheError.status # 302
        /\ NotFound =>
             /\ op = "get_subreddit"
             /\ hops >= 2
             /\ BeginsWithSearchPrefix(res.url)

C2_Witness == Done /\ FirstIs302Elsewhere /\ result.tag = "Ok" /\ hops = 1

\* C3 as stated: every call makes exactly one HTTP request.
C3_AsStated == pc # "idle" => requests = 1

\* C3 amended: every call makes one HTTP request and one more for each
\* redirect the transport follows, up to its redirect limit; no failure
\* makes a request again.
C3_OneRequestPerHop ==
    pc # "idle" => (requests = hops + 1 /\ hops <= MaxRedirects)

C3_Witness == Done /\ Failed /\ requests = 2 /\ hops = 1

\* C4 as stated: after a response with a 2xx status the fetch ends in a
\* decoded value or a decode error, never in an HTTP status error or
\* ResourceNotFound (read for the calls whose body stream does not fail).
C4_AsStated ==
    (Done /\ Answered /\ is_success(res.status) /\ ~BodyError) =>
        (result.tag = "Ok" \/ DecodeError)

\* C4 amended: after a response with a 2xx status the fetch never returns an
\* HTTP status error; get_subreddit returns SubredditNotFound exactly when the
\* response's URL begins with the search prefix; otherwise the body, whatever
\* it is, is read and every body read is passed to the decoder, so that the
\* outcome is a decoded value, a decode error, or the transport error of a
\* failed body read.
C4_SuccessStatusGoesToDecoder ==
    (Answered /\ is_success(res.status)) =>
        /\ ~StatusError
        /\ Done =>
             IF op = "get_subreddit" /\ BeginsWithSearchPrefix(res.url)
             THEN NotFound /\ text = None
             ELSE \/ BodyError /\ text = None
                  \/ /\ text # None
                     /\ decodeStarted
                     /\ result.tag = "Ok" \/ DecodeError

C4_Witness ==
    Done /\ Answered /\ res.status = 204 /\ DecodeError /\ text = Some(Garbage)

\* The class a call has put its response in.
ClassOf ==
    IF StatusError THEN <<"HttpError", TheError.status>>
    ELSE IF NotFound THEN <<"ResourceNotFound", 0>>
    ELSE IF pc \in {"body", "decode"} \/ received # "none" \/ result.tag = "Ok" \/ DecodeError \/ BodyError
         THEN <<"Success", 0>>
    ELSE <<"none", 0>>

\* The class get_subreddit puts response metadata in (client.rs:62-68).
ListingClass(r) ==
    IF r.status >= 400 /\ r.status <= 599 THEN <<"HttpError", r.status>>
    ELSE IF BeginsWithSearchPrefix(r.url) THEN <<"ResourceNotFound", 0>>
    ELSE <<"Success", 0>>

\* C5 as stated: whichever operation is called, the response falls in the
\* class get_subreddit gives its status and final URL.
C5_AsStated == ClassOf[1] # "none" => ClassOf = ListingClass(res)

\* C5 amended: get_post applies the status check of get_subreddit (the same
\* HTTP status error, with the same status, for the same metadata) but no
\* search-URL check: where get_subreddit answers ResourceNotFound, get_post
\* takes the response for a Success and goes on to read and decode it.
C5_SameStatusCheckNoSearchCheck ==
    ClassOf[1] # "none" =>
        ClassOf = IF op = "get_post" /\ ListingClass(res)[1] = "ResourceNotFound"
                  THEN <<"Success", 0>>
                  ELSE ListingClass(res)

C5_Witness ==
    Done /\ op = "get_post" /\ BeginsWithSearchPrefix(res.url) /\ decodeStarted

\* C6: in get_subreddit and in get_post, a body that does not decode is
\* returned as Error::Json carrying the body text and the parse diagnostic.
C6_DecodeFailureIsJsonError ==
    (Done /\ decodeStarted /\ Failed) =>
        /\ TheError.kind = "Json"
        /\ TheError.data = text
        /\ TheError.error # ""

\* C9: get_subreddit returns SubredditNotFound with no body read and no
\* decode started.
C9_NotFoundBeforeBody ==
    NotFound => (op = "get_subreddit" /\ text = None /\ ~decodeStarted)

C9_Witness == Done /\ NotFound /\ Answered /\ res.status = 200

\* C10: an HTTP status error carries the status of the response received,
\* and that response's body is neither read nor decoded.
C10_StatusErrorCarriesStatus ==
    StatusError =>
        /\ Answered
        /\ TheError.status = res.status
        /\ text = None
        /\ ~decodeStarted

C10_Witness ==
    Done /\ StatusError /\ TheError.status = 404 /\ first.status = 302 /\ hops = 1

----------------------------------------------------------------------------
(* What the decoder claims speak of                                        *)

RECURSIVE EnvelopesIn(_)
\* The envelopes of a sequence, at every depth of "children".
EnvelopesIn(f) ==
    UNION { {f[i]} \cup EnvelopesIn(f[i].data.children) : i \in 1..Len(f) }

RECURSIVE ThingsIn(_)
\* The Things of a decoded sequence, at every depth of Listing.children.
ThingsIn(ts) ==
    UNION { {ts[i]} \cup ThingsIn(ts[i].data.children) : i \in 1..Len(ts) }

RECURSIVE Mirrors(_, _)
\* Each Thing, at every depth, has the id and name of the envelope at its place.
Mirrors(ts, f) ==
    /\ Len(ts) = Len(f)
    /\ \A i \in 1..Len(f) :
         /\ ts[i].id = f[i].id
         /\ ts[i].name = f[i].name
         /\ Mirrors(ts[i].data.children, f[i].data.children)

Decoded == output # NotRun
\* The envelopes from_str was given as Thing (one object) or Vec (an array).
Given ==
    IF (output.as = "Thing" /\ input.t = "object") \/ (output.as = "Vec" /\ input.t = "array")
    THEN input.v ELSE <<>>
WellFormed(f) ==
    \A e \in EnvelopesIn(f) :
        e.kind \in {"Listing", "more", "t1", "t3"} /\ e.data.wf
ExpectedVariant ==
    [k \in {"Listing", "more", "t1", "t3"} |->
        CASE k = "Listing" -> "Listing" [] k = "more" -> "More"
          [] k = "t1" -> "Comment" [] k = "t3" -> "Link"]

\* C7: an envelope of kind Listing, more, t1 or t3 with a well-formed payload
\* decodes to the Listing, More, Comment or Link variant respectively, and an
\* envelope of any other kind, at any depth inside Listing.children, fails
\* the whole decode with an error and no value.
C7_DispatchTotalAndClosed ==
    (Decoded /\ Given # <<>>) =>
        /\ WellFormed(Given) =>
             /\ output.r.ok
             /\ Len(output.r.v) = Len(Given)
             /\ \A i \in 1..Len(Given) :
                  output.r.v[i].data.variant = ExpectedVariant[Given[i].kind]
        /\ (\E e \in EnvelopesIn(Given) : e.kind \notin {"Listing", "more", "t1", "t3"}) =>
             /\ ~output.r.ok
             /\ output.r.v = <<>>
             /\ output.r.error # ""

\* A Listing holding a Listing holding a t2 was given and refused.
C7_Witness ==
    /\ output.as = "Thing"
    /\ input.t = "object"
    /\ input.v[1].kind = "Listing"
    /\ Len(input.v[1].data.children) = 1
    /\ input.v[1].data.children[1].kind = "Listing"
    /\ Len(input.v[1].data.children[1].data.children) = 1
    /\ input.v[1].data.children[1].data.children[1].kind = "t2"
    /\ ~output.r.ok

RECURSIVE InDocumentOrder(_, _)
\* The i-th Thing is the decoding of the i-th envelope, at every depth.
InDocumentOrder(ts, f) ==
    /\ Len(ts) = Len(f)
    /\ \A i \in 1..Len(f) :
         /\ ts[i].data.variant = ExpectedVariant[f[i].kind]
         /\ ts[i].id = f[i].id
         /\ InDocumentOrder(ts[i].data.children, f[i].data.children)

\* C11: decoding a top-level array of n well-formed envelopes as Vec<Thing>
\* yields exactly n Things in the order of the array, a two-entry array whose
\* first entry is a Listing yields two Things the first of which is the
\* Listing variant, and a Listing's children keep their document order.
C11_VecKeepsDocumentOrder ==
    (Decoded /\ Given # <<>> /\ WellFormed(Given)) =>
        /\ output.r.ok
        /\ Len(output.r.v) = Len(Given)
        /\ InDocumentOrder(output.r.v, Given)
        /\ (output.as = "Vec" /\ Len(Given) = 2 /\ Given[1].kind = "Listing") =>
             (Len(output.r.v) = 2 /\ output.r.v[1].data.variant = "Listing")

\* A two-entry array, a Listing with a child and then a more, was decoded.
C11_Witness ==
    /\ output.as = "Vec"
    /\ input.t = "array"
    /\ Len(input.v) = 2
    /\ input.v[1].kind = "Listing"
    /\ Len(input.v[1].data.children) = 1
    /\ input.v[2].kind = "more"
    /\ output.r.ok
    /\ Len(output.r.v) = 2
    /\ output.r.v[1].data.variant = "Listing"

----------------------------------------------------------------------------
(* The order of the steps of a fetch                                       *)

\* C12: the decode step begins only after the complete body has arrived: when
\* the body stream fails or the call is dropped before that, no decode has
\* started and no value is returned, and a body-stream failure is returned as
\* the transport (reqwest) error.
C12_DecodeOnlyAfterCompleteBody ==
    /\ (pc = "decode" \/ decodeStarted \/ result.tag = "Ok") =>
         (received = "complete" /\ text # None)
    /\ received # "complete" => (text = None /\ ~decodeStarted /\ result.tag # "Ok")
    /\ BodyError =>
         /\ received # "complete"
         /\ TheError = Error_Reqwest("body", 0)
         /\ result.v = <<>>
    /\ pc = "dropped" =>
         (received # "complete" /\ ~decodeStarted /\ result = Pending)

C12_Witness == Done /\ BodyError /\ received = "partial" /\ ~decodeStarted

\* C13: get_subreddit checks the status before the search URL: a response
\* whose URL begins with the search prefix and whose status is 4xx/5xx gives
\* the HTTP status error, and SubredditNotFound is returned only when the
\* status check has passed and the URL begins with the prefix.
C13_StatusCheckBeforeSearchCheck ==
    /\ ( /\ Done
         /\ op = "get_subreddit"
         /\ Answered
         /\ BeginsWithSearchPrefix(res.url)
         /\ res.status >= 400 /\ res.status <= 599 )
       => (StatusError /\ TheError.status = res.status /\ ~NotFound)
    /\ NotFound =>
         /\ op = "get_subreddit"
         /\ Answered
         /\ ~(res.status >= 400 /\ res.status <= 599)
         /\ BeginsWithSearchPrefix(res.url)

C13_Witness ==
    /\ Done
    /\ op = "get_subreddit"
    /\ BeginsWithSearchPrefix(res.url)
    /\ res.status = 500
    /\ StatusError

====
